---- MODULE Spec2Model ----
(***************************************************************************)
(* cmus-notify, src/lib.rs: cover resolution (track_cover, search_for,     *)
(* search, get_embedded_art) and template substitution                     *)
(* (process_template_placeholders).                                        *)
(*                                                                         *)
(* Three specifications share the module:                                  *)
(*   Spec        a call of track_cover on a file system,                   *)
(*   SpecSearch  a direct call of search_for on a file system,             *)
(*   SpecRender  a call of process_template_placeholders.                  *)
(***************************************************************************)
EXTENDS Naturals, Sequences, FiniteSets

VARIABLES
    \* ---- inputs and environment of track_cover / search_for
    mode,                       \* "track_cover" | "search_for" | "render"
    start_path,                 \* track_path (track_cover) = search_directory argument (search_for)
    max_depth_arg,              \* the max_depth argument (u8)
    force_use_external_cover,
    no_use_external_cover,
    regx,                       \* the matcher handed to search_for
    embedded_art,               \* what get_embedded_art(track_path) does on this track
    nodes,                      \* nodes[i]: what the i-th ancestor of start_path is on disk
    fs,                         \* fs[i]: the entries of the directory that is the i-th ancestor
    \* ---- state of the running call
    pc,
    search_directory,           \* `let mut search_directory`
    max_depth,                  \* `let mut max_depth`
    inspected,                  \* history: the paths read_dir was called on, in order
    listing,                    \* history: what read_dir yielded, in its order, in the call of search that returned
    search_result,              \* what search_for returned
    cover,                      \* what track_cover returned
    \* ---- process_template_placeholders
    template,
    track,
    pos,                        \* index in template.chars() of the next character
    key,
    processed

coverVars  == <<mode, start_path, max_depth_arg, force_use_external_cover,
                no_use_external_cover, regx, embedded_art, nodes, fs, pc,
                search_directory, max_depth, inspected, listing, search_result, cover>>
renderVars == <<template, track, pos, key, processed>>
vars       == <<coverVars, renderVars>>

----------------------------------------------------------------------------
(* Bounds of the model *)

MaxComps == 2       \* components of the start path
MaxHops  == 2       \* largest max_depth argument tried
MaxFiles == 2       \* directory entries placed in the whole ancestor chain
MaxToks  == 3       \* tokens a template is built from

----------------------------------------------------------------------------
(* Option and Result values *)

NoneV       == [tag |-> "None"]
Some(x)     == [tag |-> "Some", val |-> x]
Ok(x)       == [tag |-> "Ok", val |-> x]
Err(k)      == [tag |-> "Err", kind |-> k]
Pending     == [tag |-> "Pending"]

----------------------------------------------------------------------------
(* Paths.  A path is its root flag and its normal components.              *)

DirNames == <<"srv", "music", "artist", "album", "disc", "part">>

PathOf(abs, k) == [abs |-> abs, comps |-> SubSeq(DirNames, 1, k)]

\* Path::parent (lib.rs:99): the path without its last component; "/" and ""
\* have none, and the parent of a one-component relative path is "".
Parent(p) ==
    IF p.comps = <<>> THEN NoneV
    ELSE Some([abs |-> p.abs, comps |-> SubSeq(p.comps, 1, Len(p.comps) - 1)])

\* How many parent() steps lead from start_path to p.
Level(p) == Len(start_path.comps) - Len(p.comps)

IsEmptyPath(p) == ~p.abs /\ p.comps = <<>>

----------------------------------------------------------------------------
(* Directory entries.  A file name is stem "." ext (ext = "" : no dot).    *)

Entry(stem, ext, kind, utf8) == [stem |-> stem, ext |-> ext, kind |-> kind, utf8 |-> utf8]

cover_jpg  == Entry("cover", "jpg", "file", TRUE)
front_png  == Entry("front", "png", "file", TRUE)
always_lrc == Entry("08 - Always", "lrc", "file", TRUE)
scans_jpg  == Entry("scans", "jpg", "dir", TRUE)       \* a subdirectory with an image-like name
link_gif   == Entry("link", "gif", "symlink", TRUE)    \* a symlink to an image
broken_jpg == Entry("broken", "jpg", "broken", TRUE)   \* read_dir yields Err for it
odd_jpeg   == Entry("odd", "jpeg", "unknown", TRUE)    \* file_type() fails on it
bad_gif    == Entry("bad", "gif", "file", FALSE)       \* file name is not valid UTF-8

SearchEntries == {cover_jpg, front_png, always_lrc, scans_jpg, broken_jpg, odd_jpeg, bad_gif}
CoverEntries  == {cover_jpg, always_lrc, link_gif}

\* The regular expressions used: each matches a name by its ending.
CoverRegex == {"jpg", "jpeg", "png", "gif"}    \* r".*\.(jpg|jpeg|png|gif)$"
LrcRegex   == {"lrc"}                          \* r".\.lrc" of the tests

\* regex::Regex::is_match on the file name (lib.rs:164)
IsMatch(matcher, e) == e.ext \in matcher

\* The entry a directory holds for the child the walk came from.
ChildEntry(i) ==
    Entry(start_path.comps[Len(start_path.comps) - i],
          IF nodes[i] = "file" THEN "mp3" ELSE "",
          IF nodes[i] = "file" THEN "file" ELSE "dir", TRUE)

\* What the directory at p holds on disk.
Contents(p) ==
    LET i == Level(p) IN
    fs[i] \cup (IF i > 0 /\ nodes[i - 1] \in {"dir", "noperm", "file"}
                THEN {ChildEntry(i - 1)} ELSE {})

\* std::fs::read_dir(p) (lib.rs:158): Ok, or the io::Error kind.
ReadDir(p) ==
    IF IsEmptyPath(p) THEN Err("NotFound")
    ELSE LET n == nodes[Level(p)] IN
         IF n = "dir" THEN Ok(NoneV)
         ELSE IF n = "noperm" THEN Err("PermissionDenied")
         ELSE IF n = "file" THEN Err("NotADirectory")
         ELSE Err("NotFound")

\* The orders a directory listing can come in (file-system defined).
RECURSIVE Orders(_)
Orders(S) ==
    IF S = {} THEN {<<>>}
    ELSE UNION {{<<e>> \o rest : rest \in Orders(S \ {e})} : e \in S}

\* entry.path(): search_directory joined with the file name.
Join(dir, e) == [dir |-> dir, stem |-> e.stem, ext |-> e.ext]

\* An entry the loop of `search` gets to test and that passes.
Inspectable(e) == e.kind = "file" /\ e.utf8

\* A variant of Search that fails on an entry it cannot inspect.
RECURSIVE SearchSkipNothing(_, _, _)
SearchSkipNothing(entries, dir, matcher) ==
    IF entries = <<>> THEN Ok(NoneV)
    ELSE LET e == Head(entries) IN
         IF e.kind \in {"broken", "unknown"} \/ ~e.utf8 THEN Err("Other")
         ELSE IF e.kind = "file" /\ IsMatch(matcher, e) THEN Ok(Some(Join(dir, e)))
         ELSE SearchSkipNothing(Tail(entries), dir, matcher)

\* The loop of `search` (lib.rs:158-171) over the entries read_dir yields.
\* path.to_str() (lib.rs:166) cannot fail: both parts are valid UTF-8 there.
RECURSIVE Search(_, _, _)
Search(entries, dir, matcher) ==
    IF entries = <<>> THEN Ok(NoneV)
    ELSE LET e    == Head(entries)
             rest == Search(Tail(entries), dir, matcher)
         IN  IF e.kind = "broken" THEN rest                     \* line 159
             ELSE IF e.kind = "unknown" THEN rest               \* line 160
             ELSE IF e.kind = "file" THEN                       \* line 161
                  IF ~e.utf8 THEN rest                          \* line 162
                  ELSE IF IsMatch(matcher, e)
                       THEN Ok(Some(Join(dir, e)))              \* line 167
                       ELSE rest
             ELSE rest

----------------------------------------------------------------------------
(* The initial states: the arguments of the call and the disk.             *)

NodeKinds == {"dir", "noperm", "file", "missing"}

\* nodes of an ancestor chain of k+1 levels that a disk can hold: whatever
\* exists has directories above it, "/" is a directory that opens, and ""
\* (the last parent of a relative path, level k) names nothing: the
\* directories of a relative path lie in the working directory, which the
\* walk cannot name.
NodesOK(abs, k, n) ==
    /\ \A i \in 1..k : (n[i - 1] # "missing" /\ (abs \/ i < k)) => n[i] \in {"dir", "noperm"}
    /\ abs => n[k] = "dir"
    /\ ~abs => n[k] = "missing"

\* A disk holds at most MaxFiles entries, all inside directories that open.
Slots(k, universe) == (0..k) \X universe

FsOf(k, chosen) == [i \in 0..k |-> {s[2] : s \in {t \in chosen : t[1] = i}}]

\* The subsets of S of at most n elements.
RECURSIVE SubsetsUpTo(_, _)
SubsetsUpTo(S, n) ==
    IF n = 0 THEN {{}}
    ELSE SubsetsUpTo(S, n - 1) \cup {T \cup {x} : T \in SubsetsUpTo(S, n - 1), x \in S}

InitDisk(universe) ==
    \E abs \in BOOLEAN, k \in 0..MaxComps :
        /\ start_path = PathOf(abs, k)
        /\ \E n \in [0..k -> NodeKinds] :
              /\ NodesOK(abs, k, n)
              /\ nodes = n
              /\ \E chosen \in SubsetsUpTo({s \in Slots(k, universe) : n[s[1]] = "dir"}, MaxFiles) :
                    fs = FsOf(k, chosen)

InitRenderIdle ==
    /\ template = <<>>
    /\ track = [name |-> <<>>, metadata |-> <<>>]
    /\ pos = 1
    /\ key = <<>>
    /\ processed = <<>>

InitCall ==
    /\ search_directory = start_path
    /\ max_depth = max_depth_arg
    /\ inspected = <<>>
    /\ listing = <<>>
    /\ search_result = Pending
    /\ cover = Pending

EmbeddedOutcomes == {"tag_error", "no_picture", "tempfile_error", "write_error", "picture"}

\* A call track_cover(track_path, max_depth, force, no_use).
Init ==
    /\ mode = "track_cover"
    /\ InitDisk(CoverEntries)
    /\ max_depth_arg \in 0..MaxHops
    /\ force_use_external_cover \in BOOLEAN
    /\ no_use_external_cover \in BOOLEAN
    /\ regx = CoverRegex
    /\ embedded_art \in EmbeddedOutcomes
    /\ pc = "embedded"
    /\ InitCall
    /\ InitRenderIdle

\* A call search_for(search_directory, max_depth, regx).
InitSearch ==
    /\ mode = "search_for"
    /\ InitDisk(SearchEntries)
    /\ max_depth_arg \in 0..MaxHops
    /\ force_use_external_cover = FALSE
    /\ no_use_external_cover = FALSE
    /\ regx \in {CoverRegex, LrcRegex}
    /\ embedded_art = "no_picture"
    /\ pc = "loop"
    /\ InitCall
    /\ InitRenderIdle

----------------------------------------------------------------------------
(* get_embedded_art (lib.rs:37-45)                                         *)

GetEmbeddedArt(outcome) ==
    IF outcome = "tag_error" THEN Err("Other")                  \* line 38-39
    ELSE IF outcome = "no_picture" THEN Ok(NoneV)               \* line 40
    ELSE IF outcome = "tempfile_error" THEN Err("TempFile")     \* line 41
    ELSE IF outcome = "write_error" THEN Err("Other")           \* line 42-44
    ELSE Ok(Some("tempfile"))

----------------------------------------------------------------------------
(* search_for (lib.rs:80-105): one iteration of the loop per step.         *)

\* The listings read_dir(dir) can yield: none when it fails.
Listings(dir) ==
    IF ReadDir(dir).tag = "Ok" THEN Orders(Contents(dir)) ELSE {<<>>}

\* search(search_directory, regx) (lib.rs:157-172) when read_dir yields `order`.
SearchDir(dir, order, matcher) ==
    IF ReadDir(dir).tag = "Err" THEN ReadDir(dir)       \* line 158, `?`
    ELSE Search(order, dir, matcher)

\* Where search_for's result goes.
ReturnFrom(res) ==
    /\ search_result' = res
    /\ pc' = IF mode = "track_cover" THEN "external_ret" ELSE "done"

SearchUnchanged == <<mode, start_path, max_depth_arg, force_use_external_cover,
                     no_use_external_cover, regx, embedded_art, nodes, fs, cover, renderVars>>

\* lines 84-85: `?` returns search's error, a match is returned.
SearchForReturn(r, order) ==
    /\ ReturnFrom(r)
    /\ listing' = order
    /\ UNCHANGED <<search_directory, max_depth>>

\* lines 88-89: no match and no hop left.
SearchForExhausted ==
    /\ ReturnFrom(Ok(NoneV))
    /\ UNCHANGED <<search_directory, max_depth, listing>>

\* A variant of SearchForClimb that goes on to the parent with no hop left.
SearchForClimbUnbounded ==
    IF Parent(search_directory).tag = "Some"
    THEN /\ max_depth' = IF max_depth = 0 THEN 0 ELSE max_depth - 1
         /\ search_directory' = Parent(search_directory).val
         /\ UNCHANGED <<pc, search_result, listing>>
    ELSE /\ max_depth' = max_depth
         /\ ReturnFrom(Ok(NoneV))
         /\ UNCHANGED <<search_directory, listing>>

\* lines 97-102: a hop is left: on to the parent, or Ok(None) when there is
\* none.  (parent.to_str(), line 100, cannot fail: the path came from a &str.)
SearchForClimb ==
    IF max_depth = 0 THEN SearchForExhausted
    ELSE IF Parent(search_directory).tag = "Some"
    THEN /\ max_depth' = max_depth - 1
         /\ search_directory' = Parent(search_directory).val
         /\ UNCHANGED <<pc, search_result, listing>>
    ELSE /\ max_depth' = max_depth - 1
         /\ ReturnFrom(Ok(NoneV))
         /\ UNCHANGED <<search_directory, listing>>

\* One iteration of the loop, lines 83-104.
SearchForIter ==
    /\ pc = "loop"
    /\ inspected' = Append(inspected, search_directory)
    /\ \E order \in Listings(search_directory) :
          LET r == SearchDir(search_directory, order, regx) IN
          IF r.tag = "Err" \/ r.val.tag = "Some"
          THEN SearchForReturn(r, order)
          ELSE SearchForClimb
    /\ UNCHANGED SearchUnchanged

----------------------------------------------------------------------------
(* track_cover (lib.rs:124-154)                                            *)

CoverUnchanged == <<mode, start_path, max_depth_arg, force_use_external_cover,
                    no_use_external_cover, regx, embedded_art, nodes, fs,
                    search_directory, max_depth, inspected, listing, renderVars>>

\* A variant of TrackCoverEmbedded that does not look at force_use_external_cover.
TrackCoverEmbeddedIgnoresForce ==
    /\ pc = "embedded"
    /\ LET art == GetEmbeddedArt(embedded_art) IN
       IF art.tag = "Ok" /\ art.val.tag = "Some"
       THEN /\ cover' = [tag |-> "Embedded", val |-> art.val.val]
            /\ pc' = "done"
       ELSE /\ cover' = cover
            /\ pc' = "external"
    /\ UNCHANGED search_result
    /\ UNCHANGED CoverUnchanged

\* lines 130-136
TrackCoverEmbedded ==
    /\ pc = "embedded"
    /\ LET art == GetEmbeddedArt(embedded_art) IN
       IF ~force_use_external_cover /\ art.tag = "Ok" /\ art.val.tag = "Some"
       THEN /\ cover' = [tag |-> "Embedded", val |-> art.val.val]
            /\ pc' = "done"
       ELSE /\ cover' = cover
            /\ pc' = "external"
    /\ UNCHANGED search_result
    /\ UNCHANGED CoverUnchanged

\* A variant of TrackCoverExternal that does not look at no_use_external_cover.
TrackCoverExternalUnguarded ==
    /\ pc = "external"
    /\ pc' = "loop"
    /\ UNCHANGED <<search_result, cover>>
    /\ UNCHANGED CoverUnchanged

\* lines 138-145: the external search starts, with track_path as its directory.
TrackCoverExternal ==
    /\ pc = "external"
    /\ ~no_use_external_cover
    /\ pc' = "loop"
    /\ UNCHANGED <<search_result, cover>>
    /\ UNCHANGED CoverUnchanged

\* lines 138, 153: external covers are switched off.
TrackCoverNoExternal ==
    /\ pc = "external"
    /\ no_use_external_cover
    /\ cover' = [tag |-> "None"]
    /\ pc' = "done"
    /\ UNCHANGED search_result
    /\ UNCHANGED CoverUnchanged

\* A variant of TrackCoverSearched that hands search_for's error on.
TrackCoverSearchedPropagates ==
    /\ pc = "external_ret"
    /\ IF search_result.tag = "Ok" /\ search_result.val.tag = "Some"
       THEN cover' = [tag |-> "External", val |-> search_result.val.val]
       ELSE IF search_result.tag = "Err" THEN cover' = search_result
       ELSE cover' = [tag |-> "None"]
    /\ pc' = "done"
    /\ UNCHANGED search_result
    /\ UNCHANGED CoverUnchanged

\* lines 141-153: `if let Ok(Some(cover))` on search_for's result.
TrackCoverSearched ==
    /\ pc = "external_ret"
    /\ IF search_result.tag = "Ok" /\ search_result.val.tag = "Some"
       THEN cover' = [tag |-> "External", val |-> search_result.val.val]
       ELSE cover' = [tag |-> "None"]
    /\ pc' = "done"
    /\ UNCHANGED search_result
    /\ UNCHANGED CoverUnchanged

Next ==
    \/ TrackCoverEmbedded
    \/ TrackCoverExternal
    \/ TrackCoverNoExternal
    \/ TrackCoverSearched
    \/ SearchForIter

Spec == Init /\ [][Next]_vars

NextSearch ==
    \/ SearchForIter

SpecSearch == InitSearch /\ [][NextSearch]_vars

----------------------------------------------------------------------------
(* process_template_placeholders (lib.rs:176-210).                         *)
(* A string is the sequence of its characters.                             *)

Title == <<"t", "i", "t", "l", "e">>

\* What templates are built from: single characters and whole placeholders.
Tokens == {<<"{">>, <<"}">>, <<"a">>, <<"b">>,
           <<"{", "a", "}">>, <<"{", "b", "}">>, <<"{">> \o Title \o <<"}">>}

RECURSIVE Concat(_)
Concat(toks) == IF toks = <<>> THEN <<>> ELSE Head(toks) \o Concat(Tail(toks))

\* The templates tried: up to MaxToks tokens in a row.
Templates == UNION {{Concat(ts) : ts \in [1..n -> Tokens]} : n \in 0..MaxToks}

\* The tracks tried: a display name (Track::get_name) and the metadata map.
MetaChoices ==
    {[k \in D |-> IF k = <<"a">> THEN va ELSE IF k = <<"b">> THEN <<"W">> ELSE <<"T">>] :
        D \in SUBSET {<<"a">>, <<"b">>, Title},
        va \in {<<"V">>, <<"{", "b", "}">>}}

Tracks == [name : {<<"N">>, <<"{", "b", "}">>}, metadata : MetaChoices]

\* format!("{{{}}}", key) (lib.rs:195)
Braced(k) == <<"{">> \o k \o <<"}">>

\* str::replacen(from, to, 1): the first occurrence only.
ReplaceFirst(s, from, to) ==
    IF \E i \in 1..Len(s) : i + Len(from) - 1 <= Len(s) /\ SubSeq(s, i, i + Len(from) - 1) = from
    THEN LET i == CHOOSE i \in 1..Len(s) :
                    /\ i + Len(from) - 1 <= Len(s)
                    /\ SubSeq(s, i, i + Len(from) - 1) = from
                    /\ \A h \in 1..(i - 1) : SubSeq(s, h, h + Len(from) - 1) # from
         IN  SubSeq(s, 1, i - 1) \o to \o SubSeq(s, i + Len(from), Len(s))
    ELSE s

\* str::replace (lib.rs:194): every non-overlapping occurrence, left to
\* right; what a replacement puts in is not searched again.
RECURSIVE Replace(_, _, _)
Replace(s, from, to) ==
    IF Len(s) < Len(from) THEN s
    ELSE IF SubSeq(s, 1, Len(from)) = from
         THEN to \o Replace(SubSeq(s, Len(from) + 1, Len(s)), from, to)
         ELSE <<Head(s)>> \o Replace(Tail(s), from, to)

\* A variant of Resolve without the "title" arm.
ResolveNoTitle(k) ==
    IF k \in DOMAIN track.metadata THEN track.metadata[k] ELSE <<>>

\* The value of a key (lib.rs:196-199).
Resolve(k) ==
    IF k = Title THEN track.name
    ELSE IF k \in DOMAIN track.metadata THEN track.metadata[k] ELSE <<>>

InitCoverIdle ==
    /\ start_path = PathOf(TRUE, 0)
    /\ max_depth_arg = 0
    /\ force_use_external_cover = FALSE
    /\ no_use_external_cover = FALSE
    /\ regx = CoverRegex
    /\ embedded_art = "no_picture"
    /\ nodes = [i \in {0} |-> "dir"]
    /\ fs = [i \in {0} |-> {}]
    /\ InitCall

\* A call process_template_placeholders(template, track): lines 183-185.
InitRender ==
    /\ mode = "render"
    /\ InitCoverIdle
    /\ template \in Templates
    /\ track \in Tracks
    /\ pos = 1
    /\ key = <<>>
    /\ processed = template
    /\ pc = "scan"

\* line 188-189
RenderOpen ==
    /\ pc = "scan" /\ pos <= Len(template)
    /\ template[pos] = "{"
    /\ key' = <<>>
    /\ pos' = pos + 1
    /\ UNCHANGED <<template, track, processed, coverVars>>

\* A variant of RenderClose that replaces the first occurrence only.
RenderCloseFirstOnly ==
    /\ pc = "scan" /\ pos <= Len(template)
    /\ template[pos] = "}"
    /\ processed' = ReplaceFirst(processed, Braced(key), Resolve(key))
    /\ pos' = pos + 1
    /\ UNCHANGED <<template, track, key, coverVars>>

\* lines 190-200
RenderClose ==
    /\ pc = "scan" /\ pos <= Len(template)
    /\ template[pos] = "}"
    /\ processed' = Replace(processed, Braced(key), Resolve(key))
    /\ pos' = pos + 1
    /\ UNCHANGED <<template, track, key, coverVars>>

\* lines 201-203
RenderPush ==
    /\ pc = "scan" /\ pos <= Len(template)
    /\ template[pos] \notin {"{", "}"}
    /\ key' = Append(key, template[pos])
    /\ pos' = pos + 1
    /\ UNCHANGED <<template, track, processed, coverVars>>

\* line 209
RenderReturn ==
    /\ pc = "scan" /\ pos > Len(template)
    /\ pc' = "done"
    /\ UNCHANGED <<mode, start_path, max_depth_arg, force_use_external_cover,
                   no_use_external_cover, regx, embedded_art, nodes, fs,
                   search_directory, max_depth, inspected, listing, search_result, cover>>
    /\ UNCHANGED renderVars

NextRender ==
    \/ RenderOpen
    \/ RenderClose
    \/ RenderPush
    \/ RenderReturn

SpecRender == InitRender /\ [][NextRender]_vars

----------------------------------------------------------------------------
(* Facts about the disk and the finished call, used by the properties.     *)

\* The i-th ancestor of the start path.
PathAt(i) == PathOf(start_path.abs, Len(start_path.comps) - i)

Levels == 0..Len(start_path.comps)

\* The directory at level i opens.
Opens(i) == ~IsEmptyPath(PathAt(i)) /\ nodes[i] = "dir"

\* The directory at level i opens and holds a regular file, with a name that
\* is valid UTF-8, that the matcher accepts.
HasMatch(i) ==
    /\ Opens(i)
    /\ \E e \in Contents(PathAt(i)) : Inspectable(e) /\ IsMatch(regx, e)

\* The entries of a listing before its first inspectable match.
FirstMatchIndex(order) ==
    CHOOSE j \in 1..Len(order) :
        /\ Inspectable(order[j]) /\ IsMatch(regx, order[j])
        /\ \A h \in 1..(j - 1) : ~(Inspectable(order[h]) /\ IsMatch(regx, order[h]))

Last(s) == s[Len(s)]

Returned == search_result.tag # "Pending"

----------------------------------------------------------------------------
(* C1: track_cover returns exactly one of Embedded, External and None and   *)
(* never an error; a failure of the embedded extraction or of the external *)
(* search counts as "not found" for that step and the next step is taken.  *)

\* C1: a finished track_cover holds Embedded, External or None, never an error, and every
\* failed step was followed by the next step of the fallback chain.
C1_AlwaysACover ==
    /\ cover.tag \in {"Pending", "Embedded", "External", "None"}
    /\ pc = "done" <=> cover.tag \in {"Embedded", "External", "None"}
    /\ pc # "done" => ENABLED Next
    \* a failed extraction leads on to the external search
    /\ (pc = "done" /\ ~force_use_external_cover /\ ~no_use_external_cover
          /\ embedded_art \in {"tag_error", "tempfile_error", "write_error"})
       => (inspected # <<>> /\ cover.tag \in {"External", "None"})
    \* a failed external search leads on to None
    /\ (pc = "done" /\ search_result.tag = "Err") => cover.tag = "None"

C1_Witness ==
    /\ pc = "done"
    /\ ~force_use_external_cover
    /\ embedded_art = "tempfile_error"
    /\ search_result = Err("PermissionDenied")
    /\ cover.tag = "None"

----------------------------------------------------------------------------
(* C2: the result is Embedded exactly when force_use_external_cover is     *)
(* false and the track holds a picture that extraction delivers; then no   *)
(* directory was read, whatever no_use_external_cover and max_depth are.   *)

\* C2: Embedded exactly when not forced and the track holds a picture; then nothing was searched.
C2_EmbeddedIff ==
    pc = "done" =>
        /\ cover.tag = "Embedded" <=> (~force_use_external_cover /\ embedded_art = "picture")
        /\ cover.tag = "Embedded" => (inspected = <<>> /\ ~Returned)

C2_Witness ==
    /\ pc = "done"
    /\ cover.tag = "Embedded"
    /\ no_use_external_cover
    /\ max_depth_arg = MaxHops
    /\ HasMatch(0)

----------------------------------------------------------------------------
(* C3: for a track_path that names a regular file, with external covers    *)
(* allowed and the embedded art skipped or absent, an image file in the    *)
(* track's directory makes the result External.                            *)

\* C3: a regular-file track with an image in its directory resolves to External.
C3_ExternalWhenAlongside ==
    (/\ pc = "done"
     /\ nodes[0] = "file"
     /\ ~no_use_external_cover
     /\ force_use_external_cover \/ embedded_art = "no_picture"
     /\ max_depth_arg >= 1
     /\ Len(start_path.comps) >= 1
     /\ HasMatch(1))
    => cover.tag = "External"

----------------------------------------------------------------------------
(* C4: with no_use_external_cover set no directory is ever read and the    *)
(* result is never External: it is Embedded (only when not forced and the  *)
(* track holds a picture) or None.                                         *)

\* C4: with no_use_external_cover no directory is read and the result is never External.
C4_SuppressedNeverExternal ==
    no_use_external_cover =>
        /\ inspected = <<>>
        /\ ~Returned
        /\ pc \notin {"loop", "external_ret"}
        /\ cover.tag # "External"
        /\ pc = "done" =>
              cover.tag = (IF ~force_use_external_cover /\ embedded_art = "picture"
                           THEN "Embedded" ELSE "None")

C4_Witness ==
    /\ pc = "done"
    /\ no_use_external_cover
    /\ force_use_external_cover
    /\ embedded_art = "picture"
    /\ HasMatch(0)
    /\ cover.tag = "None"

----------------------------------------------------------------------------
(* C5: search_for with max_depth = N reads the start directory, its parent,*)
(* its grandparent, ... in that order and nothing else, at most N+1 of     *)
(* them; it stops at the first level that holds a match and returns a file *)
(* of that level (the first match in listing order).                       *)

----------------------------------------------------------------------------
(* C6: when every directory on the way opens and none holds a match,       *)
(* search_for returns Ok(None), for absolute and for relative start        *)
(* directories and for any max_depth.                                      *)

\* C6: no match in any directory on the way, all of which open: the result is Ok(None).
C6_AbsentNotError ==
    (/\ pc = "done"
     /\ start_path.comps # <<>>
     /\ \A i \in Levels : ~IsEmptyPath(PathAt(i)) => nodes[i] = "dir"
     /\ \A i \in Levels : ~HasMatch(i))
    => search_result = Ok(NoneV)

----------------------------------------------------------------------------
(* C8: a directory that cannot be opened makes search_for return the       *)
(* error at once, without going on to the parent; an entry that cannot be  *)
(* inspected inside an opened directory is skipped and never makes the     *)
(* call fail.                                                              *)

\* C8: only a directory that does not open makes search_for fail, and it fails at once;
\* entries that cannot be inspected are passed over.
C8_OpenErrorsOnly ==
    \* a directory that does not open is the last one read, and the call fails
    /\ \A j \in 1..Len(inspected) :
          ~Opens(j - 1) =>
              /\ j = Len(inspected)
              /\ Returned /\ search_result.tag = "Err"
              /\ search_result.kind = (IF IsEmptyPath(inspected[j]) \/ nodes[j - 1] = "missing"
                                       THEN "NotFound"
                                       ELSE IF nodes[j - 1] = "file" THEN "NotADirectory"
                                       ELSE "PermissionDenied")
    \* nothing else makes it fail
    /\ (Returned /\ search_result.tag = "Err") => ~Opens(Len(inspected) - 1)
    \* entries that cannot be inspected are passed over: the match behind them is found
    /\ (Returned /\ inspected # <<>> /\ HasMatch(Len(inspected) - 1))
       => /\ search_result.tag = "Ok" /\ search_result.val.tag = "Some"
          /\ \E j \in 1..Len(listing) :
                /\ search_result.val.val = Join(Last(inspected), listing[j])
                /\ \A h \in 1..(j - 1) : ~(Inspectable(listing[h]) /\ IsMatch(regx, listing[h]))

C8_Witness ==
    /\ pc = "done"
    /\ Len(listing) >= 2
    /\ listing[1].kind \in {"broken", "unknown"}
    /\ search_result.tag = "Ok" /\ search_result.val.tag = "Some"
    /\ search_result.val.val.stem = listing[2].stem

----------------------------------------------------------------------------
(* Templates as the placeholder grammar reads them.                        *)

IsBrace(c) == c \in {"{", "}"}

BraceFree(str) == \A i \in 1..Len(str) : ~IsBrace(str[i])

\* Literal text without braces and placeholders {key}, key without braces.
RECURSIVE WellFormedFrom(_, _)
WellFormedFrom(t, inside) ==
    IF t = <<>> THEN ~inside
    ELSE IF Head(t) = "{" THEN ~inside /\ WellFormedFrom(Tail(t), TRUE)
    ELSE IF Head(t) = "}" THEN inside /\ WellFormedFrom(Tail(t), FALSE)
    ELSE WellFormedFrom(Tail(t), inside)

WellFormed(t) == WellFormedFrom(t, FALSE)

BraceFreeTrack ==
    /\ BraceFree(track.name)
    /\ \A k \in DOMAIN track.metadata : BraceFree(track.metadata[k])

\* What the placeholder grammar says a key stands for.
Meaning(k) ==
    IF k = Title THEN track.name
    ELSE IF k \in DOMAIN track.metadata THEN track.metadata[k] ELSE <<>>

FirstClose(t) == CHOOSE j \in 1..Len(t) : t[j] = "}" /\ \A h \in 1..(j - 1) : t[h] # "}"

\* A well-formed template with each placeholder replaced by its meaning.
RECURSIVE Expand(_)
Expand(t) ==
    IF t = <<>> THEN <<>>
    ELSE IF Head(t) = "{"
         THEN Meaning(SubSeq(t, 2, FirstClose(t) - 1))
                  \o Expand(SubSeq(t, FirstClose(t) + 1, Len(t)))
         ELSE <<Head(t)>> \o Expand(Tail(t))

----------------------------------------------------------------------------
(* C7: for a well-formed template and a track whose name and values hold   *)
(* no brace, the result is the template with {title} replaced by the       *)
(* display name and every other {key} by metadata[key], or by "" when the  *)
(* key is absent; literal text is unchanged.                               *)

\* C7: a well-formed template over a brace-free track renders to its expansion.
C7_RenderWellFormed ==
    (mode = "render" /\ pc = "done" /\ WellFormed(template) /\ BraceFreeTrack)
    => /\ processed = Expand(template)
       /\ template = Braced(Title) => processed = track.name
       /\ (template = Braced(<<"b">>) /\ <<"b">> \notin DOMAIN track.metadata)
             => processed = <<>>

C7_Witness ==
    /\ mode = "render" /\ pc = "done"
    /\ BraceFreeTrack
    /\ template = Braced(Title) \o <<"a">>
    /\ Title \in DOMAIN track.metadata
    /\ processed = track.name \o <<"a">>

----------------------------------------------------------------------------
(* C9: the scan runs over the original template while every substitution   *)
(* rewrites the one accumulating buffer, all occurrences at once: text     *)
(* {k2} that a value brought in is replaced when k2 is closed later in the *)
(* scan, and stays as it is when k2 is closed only earlier or never.       *)

\* The key held when the character at index n is reached: the characters,
\* braces left out, after the last "{" before n (after the start if none).
LastOpen(n) ==
    IF \E j \in 1..(n - 1) : template[j] = "{"
    THEN CHOOSE j \in 1..(n - 1) :
            template[j] = "{" /\ \A h \in (j + 1)..(n - 1) : template[h] # "{"
    ELSE 0

RECURSIVE Unbraced(_)
Unbraced(str) ==
    IF str = <<>> THEN <<>>
    ELSE IF IsBrace(Head(str)) THEN Unbraced(Tail(str))
    ELSE <<Head(str)>> \o Unbraced(Tail(str))

KeyAt(n) == Unbraced(SubSeq(template, LastOpen(n) + 1, n - 1))

\* The buffer after the first n characters of the template: the template
\* itself, rewritten once for each "}" among them, in order.
RECURSIVE BufferAfter(_)
BufferAfter(n) ==
    IF n = 0 THEN template
    ELSE IF template[n] = "}"
         THEN Replace(BufferAfter(n - 1), Braced(KeyAt(n)), Meaning(KeyAt(n)))
         ELSE BufferAfter(n - 1)

A_ == <<"a">>
B_ == <<"b">>
RefB == Braced(B_)

\* C9: the buffer is the template rewritten once per "}" scanned, all occurrences at a time.
C9_AccumulatingBuffer ==
    mode = "render" =>
        /\ processed = BufferAfter(pos - 1)
        \* {a}{b} with a = "{b}": the {b} that a's value brought in is replaced too
        /\ (/\ pc = "done"
            /\ template = Braced(A_) \o Braced(B_)
            /\ A_ \in DOMAIN track.metadata /\ track.metadata[A_] = RefB)
           => processed = Meaning(B_) \o Meaning(B_)
        \* {b}{a} with a = "{b}": b was closed earlier only, so {b} stays
        /\ (/\ pc = "done"
            /\ template = Braced(B_) \o Braced(A_)
            /\ A_ \in DOMAIN track.metadata /\ track.metadata[A_] = RefB)
           => processed = Meaning(B_) \o RefB
        \* {a} with a = "{b}": b is never closed, so {b} stays
        /\ (/\ pc = "done"
            /\ template = Braced(A_)
            /\ A_ \in DOMAIN track.metadata /\ track.metadata[A_] = RefB)
           => processed = RefB

C9_Witness ==
    /\ mode = "render" /\ pc = "done"
    /\ template = Braced(A_) \o Braced(B_)
    /\ A_ \in DOMAIN track.metadata /\ track.metadata[A_] = RefB
    /\ B_ \in DOMAIN track.metadata
    /\ processed = <<"W", "W">>

----------------------------------------------------------------------------
(* C10: the key buffer holds only characters met between a "{" and the     *)
(* next "}": a scan with a collecting state, in which characters outside   *)
(* braces never reach the key, and an unmatched "}" finds the previously   *)
(* closed key, or the empty key if no "{" was ever met.                    *)

\* The key such a scan holds after the characters of `prefix`.
RECURSIVE CollectedKey(_, _, _)
CollectedKey(prefix, collecting, held) ==
    IF prefix = <<>> THEN held
    ELSE IF Head(prefix) = "{" THEN CollectedKey(Tail(prefix), TRUE, <<>>)
    ELSE IF Head(prefix) = "}" THEN CollectedKey(Tail(prefix), FALSE, held)
    ELSE CollectedKey(Tail(prefix), collecting,
                      IF collecting THEN Append(held, Head(prefix)) ELSE held)

\* C10: at every "}" the key is what a scan with a collecting state has collected.
C10_KeyOnlyBetweenBraces ==
    (mode = "render" /\ pc = "scan" /\ pos <= Len(template) /\ template[pos] = "}")
    => key = CollectedKey(SubSeq(template, 1, pos - 1), FALSE, <<>>)

====
